---- MODULE Spec2Model ----
(***************************************************************************)
(* Model of sae.py: the top-3 nearest-restaurant scan (search_restaurants), *)
(* the PostgreSQL result cache (update_cache / check_cache over the table   *)
(* rhistory) and the main query flow that combines them.                    *)
(*                                                                          *)
(* Coordinates are integers in units of 1e-7 degree, so that a value with   *)
(* seven decimals (one more than the NUMERIC(10, 6) column keeps) is        *)
(* representable: 40.7580004 is 407580004, the tolerance 0.001 is 10000.    *)
(***************************************************************************)
EXTENDS Integers, Sequences, FiniteSets

(***************************************************************************)
(* Bounds of the model.                                                     *)
(***************************************************************************)
\* longest candidate stream the scan is run over
MaxLen == 4

(***************************************************************************)
(* Python values.  None and a missing dictionary key are model values; a    *)
(* string is a TLA+ string.  Strings lists the strings of the model in      *)
(* Python's (code point) order, which is what str.__lt__ compares.          *)
(***************************************************************************)
None == "<None>"

Absent == "<absent>"

Strings == <<"Italian ", "Sans nom", "a", "b", "c", "d", "italian", "thai">>

StrRank(s) == CHOOSE i \in 1..Len(Strings) : Strings[i] = s

Abs(x) == IF x < 0 THEN -x ELSE x

Min(a, b) == IF a < b THEN a ELSE b

\* lst[:3]
Take3(lst) == SubSeq(lst, 1, Min(3, Len(lst)))

\* list.reverse()
Reverse(lst) == [i \in 1..Len(lst) |-> lst[Len(lst) + 1 - i]]

(***************************************************************************)
(* geodesic(a, b).km of geopy, abstracted to an integer metric on the       *)
(* coordinate grid (symmetric, zero exactly on equal points, triangle       *)
(* inequality): the scan only compares distances with each other.           *)
(***************************************************************************)
geodesic(a, b) == Abs(a[1] - b[1]) + Abs(a[2] - b[2])

(***************************************************************************)
(* str(resto_cuisine).strip().lower(), tabulated on the cuisines of the     *)
(* model.                                                                   *)
(***************************************************************************)
StripLower(s) ==
  CASE s = "Italian " -> "italian"
    [] s = "italian" -> "italian"
    [] s = "thai" -> "thai"
    [] OTHER -> s

(***************************************************************************)
(* Comparison of the heap's tuples (-distance, name, cuisine): Python       *)
(* compares tuples at the first position where they differ; on names or     *)
(* cuisines that differ, None < str raises TypeError.                       *)
(***************************************************************************)
PyRaises(a, b) == a # b /\ (a = None \/ b = None)

PyLt(a, b) == StrRank(a) < StrRank(b)

TupleRaises(x, y) ==
  /\ x.neg = y.neg
  /\ IF x.name # y.name THEN PyRaises(x.name, y.name)
     ELSE PyRaises(x.cuisine, y.cuisine)

TupleLt(x, y) ==
  IF x.neg # y.neg THEN x.neg < y.neg
  ELSE IF x.name # y.name THEN PyLt(x.name, y.name)
  ELSE IF x.cuisine # y.cuisine THEN PyLt(x.cuisine, y.cuisine)
  ELSE FALSE

(***************************************************************************)
(* heapq on a list (0-based positions pos are kept, heap[pos + 1] is the    *)
(* element).  Every operation yields [ok, heap, item]; ok = FALSE is a      *)
(* TypeError raised by a comparison.                                        *)
(***************************************************************************)
HeapErr == [ok |-> FALSE, heap |-> <<>>]

RECURSIVE siftdown(_, _, _, _)
siftdown(heap, startpos, pos, newitem) ==
  IF pos > startpos
  THEN LET parentpos == (pos - 1) \div 2
           parent == heap[parentpos + 1]
       IN IF TupleRaises(newitem, parent) THEN HeapErr
          ELSE IF TupleLt(newitem, parent)
          THEN siftdown([heap EXCEPT ![pos + 1] = parent], startpos, parentpos, newitem)
          ELSE [ok |-> TRUE, heap |-> [heap EXCEPT ![pos + 1] = newitem]]
  ELSE [ok |-> TRUE, heap |-> [heap EXCEPT ![pos + 1] = newitem]]

RECURSIVE siftup_loop(_, _, _, _)
siftup_loop(heap, startpos, pos, newitem) ==
  LET endpos == Len(heap)
      childpos == 2 * pos + 1
      rightpos == childpos + 1
  IN IF childpos < endpos
     THEN IF rightpos < endpos /\ TupleRaises(heap[childpos + 1], heap[rightpos + 1])
          THEN HeapErr
          ELSE LET c == IF rightpos < endpos
                           /\ ~TupleLt(heap[childpos + 1], heap[rightpos + 1])
                        THEN rightpos ELSE childpos
               IN siftup_loop([heap EXCEPT ![pos + 1] = heap[c + 1]], startpos, c, newitem)
     ELSE siftdown([heap EXCEPT ![pos + 1] = newitem], startpos, pos, newitem)

siftup(heap, pos) == siftup_loop(heap, pos, pos, heap[pos + 1])

heappush(heap, item) == siftdown(Append(heap, item), 0, Len(heap), item)

heapreplace(heap, item) == siftup([heap EXCEPT ![1] = item], 0)

\* [ok, heap, item]: item is the popped (smallest) tuple
heappop(heap) ==
  LET lastelt == heap[Len(heap)]
      rest == SubSeq(heap, 1, Len(heap) - 1)
  IN IF rest = <<>> THEN [ok |-> TRUE, heap |-> <<>>, item |-> lastelt]
     ELSE LET r == siftup([rest EXCEPT ![1] = lastelt], 0)
          IN IF r.ok THEN [ok |-> TRUE, heap |-> r.heap, item |-> heap[1]]
             ELSE [ok |-> FALSE, heap |-> <<>>, item |-> heap[1]]

(***************************************************************************)
(* Restaurant documents of the collection.  coord.kind tells what           *)
(* resto['address']['coord']['coordinates'] holds: "ok" two numbers         *)
(* (lat, lon), "absent" a missing key (KeyError), "short" a list with fewer *)
(* than two components (IndexError), "nonnum" two components that are not   *)
(* numbers (the extraction succeeds, geodesic raises).                      *)
(***************************************************************************)
BaseLat == 407589000

BaseLon == -739851000

At(dlat) == [kind |-> "ok", lat |-> BaseLat + dlat, lon |-> BaseLon]

NoCoord(k) == [kind |-> k, lat |-> 0, lon |-> 0]

Resto(c, n, cu) == [coord |-> c, name |-> n, cuisine |-> cu]

Candidates ==
  { Resto(At(1000), "a", "italian"),
    Resto(At(-1000), "b", "Italian "),
    Resto(At(2000), "c", "italian"),
    Resto(At(1000), "a", None),
    Resto(At(-1000), None, "italian"),
    Resto(At(500), Absent, "thai"),
    Resto(NoCoord("absent"), "c", "italian"),
    Resto(NoCoord("short"), "d", Absent),
    Resto(NoCoord("nonnum"), "b", "italian") }

Injective(f) == \A i, j \in DOMAIN f : f[i] = f[j] => i = j

\* the collection holds distinct documents; the cursor yields them in any order
Streams ==
  UNION { { s \in [1..n -> Candidates] : Injective(s) } : n \in 0..MaxLen }

Origins == { <<BaseLat, BaseLon>>, <<BaseLat + 10000, BaseLon>> }

Filters == { "", "italian" }

(***************************************************************************)
(* search_restaurants.  The local state of the scan is [heap, total_count,  *)
(* failed]; failed is an exception raised inside the try block, which the   *)
(* except clause turns into the return value ([], 0).                       *)
(***************************************************************************)
ScanInit == [heap |-> <<>>, total_count |-> 0, failed |-> FALSE]

ScanFail(st) == [st EXCEPT !.failed = TRUE]

\* the try/except around the extraction of the coordinates
ExtractRaises(resto) == resto.coord.kind \in {"absent", "short"}

\* resto.get('name', 'Sans nom')
NameOf(resto) == IF resto.name = Absent THEN "Sans nom" ELSE resto.name

\* resto.get('cuisine')
CuisineOf(resto) == IF resto.cuisine = Absent THEN None ELSE resto.cuisine

resto_cuisine_safe(resto) ==
  IF CuisineOf(resto) = None THEN "" ELSE StripLower(CuisineOf(resto))

condition(resto, user_cuisine) ==
  user_cuisine = "" \/ user_cuisine = resto_cuisine_safe(resto)

\* mutant: the comparison with the worst held distance turned around
NearerReversed(distance, heap) == distance > -heap[1].neg

\* the comparison with the worst held distance, heap[0][0] being -distance
Nearer(distance, heap) == distance < -heap[1].neg

\* the if/else that pushes into, or replaces in, the heap
HeapLimit == 3

\* mutant: the heap is let grow to one more than three
HeapInsertOffByOne(heap, distance, item) ==
  IF Len(heap) <= HeapLimit THEN heappush(heap, item)
  ELSE IF Nearer(distance, heap) THEN heapreplace(heap, item)
  ELSE [ok |-> TRUE, heap |-> heap]

\* mutant: a full heap is never updated, the first three matches are kept
HeapInsertNoReplace(heap, distance, item) ==
  IF Len(heap) < HeapLimit THEN heappush(heap, item)
  ELSE [ok |-> TRUE, heap |-> heap]

HeapInsert(heap, distance, item) ==
  IF Len(heap) < HeapLimit THEN heappush(heap, item)
  ELSE IF Nearer(distance, heap) THEN heapreplace(heap, item)
  ELSE [ok |-> TRUE, heap |-> heap]

\* one iteration of "for resto in all_restaurants"
LoopBody(st, resto, user_position, user_cuisine) ==
  IF ExtractRaises(resto) THEN st
  ELSE IF ~condition(resto, user_cuisine) THEN st
  ELSE LET counted == [st EXCEPT !.total_count = @ + 1]
       IN IF resto.coord.kind = "nonnum" THEN ScanFail(counted)
          ELSE LET distance == geodesic(user_position, <<resto.coord.lat, resto.coord.lon>>)
                   item == [neg |-> -distance, name |-> NameOf(resto),
                            cuisine |-> CuisineOf(resto)]
                   r == HeapInsert(st.heap, distance, item)
               IN IF r.ok THEN [counted EXCEPT !.heap = r.heap]
                  ELSE ScanFail(counted)

RankedResult(item) ==
  [name |-> item.name, distance_km |-> -item.neg, type_cuisine |-> item.cuisine]

\* "while heap: heappop", the results in pop order; [ok, results]
RECURSIVE PopAll(_, _)
PopAll(heap, acc) ==
  IF heap = <<>> THEN [ok |-> TRUE, results |-> acc]
  ELSE LET r == heappop(heap)
       IN IF r.ok THEN PopAll(r.heap, Append(acc, RankedResult(r.item)))
          ELSE [ok |-> FALSE, results |-> <<>>]

Failure == [results |-> <<>>, total_count |-> 0]

\* the conversion of the heap into the sorted list, and the return
ScanReturn(st) ==
  IF st.failed THEN Failure
  ELSE LET p == PopAll(st.heap, <<>>)
       IN IF p.ok THEN [results |-> Reverse(p.results), total_count |-> st.total_count]
          ELSE Failure

RECURSIVE ScanFrom(_, _, _, _, _)
ScanFrom(st, s, i, user_position, user_cuisine) ==
  IF st.failed \/ i > Len(s) THEN st
  ELSE ScanFrom(LoopBody(st, s[i], user_position, user_cuisine), s, i + 1,
                user_position, user_cuisine)

\* the whole function on a cursor that yields s without an I/O fault
search_restaurants(user_position, user_cuisine, s, connected) ==
  IF ~connected THEN Failure
  ELSE ScanReturn(ScanFrom(ScanInit, s, 1, user_position, user_cuisine))

(***************************************************************************)
(* The cache table rhistory.  A row is [latitude, longitude, cuisine,       *)
(* results, created_at]: latitude and longitude are NUMERIC(10, 6), cuisine *)
(* is a string or NULL (None), results is the hstore value, created_at the  *)
(* CURRENT_TIMESTAMP of the insert (a clock that every insert advances).    *)
(***************************************************************************)
\* 0.001 degree
Tolerance == 10000

\* the count at which update_cache empties the table
CacheLimit == 20

\* NUMERIC(10, 6): one unit of the sixth decimal
Scale6 == 10

\* the value a NUMERIC(10, 6) column keeps: rounded half away from zero
Round6(x) ==
  IF x >= 0 THEN ((x + Scale6 \div 2) \div Scale6) * Scale6
  ELSE -(((-x + Scale6 \div 2) \div Scale6) * Scale6)

(***************************************************************************)
(* lat - 0.001 and lat + 0.001 are IEEE-754 double operations; psycopg2     *)
(* sends the result as its repr, which PostgreSQL reads as an exact         *)
(* numeric.  The result is the exact decimal plus an error far below one    *)
(* unit; only the sign of the error decides a comparison with a column      *)
(* value.  SubErr and AddErr give that sign for the coordinates of the      *)
(* model, as repr(x - 0.001) and repr(x + 0.001) evaluate:                  *)
(*   40.7589 - 0.001 = 40.7579              40.7589 + 0.001 = 40.759899999999995 *)
(*   40.7589004 - 0.001 = 40.757900400000004   40.7589004 + 0.001 = 40.7599004   *)
(*   40.7599 - 0.001 = 40.758900000000004   40.7599 + 0.001 = 40.7609       *)
(*   40.7599004 - 0.001 = 40.7589004        40.7599004 + 0.001 = 40.7609004 *)
(*   40.7579 - 0.001 = 40.7569              40.7579 + 0.001 = 40.7589       *)
(*   40.76 - 0.001 = 40.759                 40.76 + 0.001 = 40.760999999999996 *)
(*   -73.9851 - 0.001 = -73.98610000000001  -73.9851 + 0.001 = -73.9841     *)
(*   -73.9841 - 0.001 = -73.9851            -73.9841 + 0.001 = -73.9831     *)
(*   -73.984 - 0.001 = -73.985              -73.984 + 0.001 = -73.98299999999999 *)
(***************************************************************************)
SubErr(x) ==
  CASE x = BaseLat -> 0
    [] x = BaseLat + 4 -> 1
    [] x = BaseLat + 10000 -> 1
    [] x = BaseLat + 10004 -> 0
    [] x = BaseLat - 10000 -> 0
    [] x = BaseLat + 11000 -> 0
    [] x = BaseLon -> -1
    [] x = BaseLon + 10000 -> 0
    [] x = BaseLon + 11000 -> 0

AddErr(x) ==
  CASE x = BaseLat -> -1
    [] x = BaseLat + 4 -> 0
    [] x = BaseLat + 10000 -> 0
    [] x = BaseLat + 10004 -> 0
    [] x = BaseLat - 10000 -> 0
    [] x = BaseLat + 11000 -> -1
    [] x = BaseLon -> 0
    [] x = BaseLon + 10000 -> 0
    [] x = BaseLon + 11000 -> 1

\* a double as [units, err]: the decimal units * 1e-7 plus an error of sign err
FloatSub(x) == [units |-> x - Tolerance, err |-> SubErr(x)]

FloatAdd(x) == [units |-> x + Tolerance, err |-> AddErr(x)]

\* column BETWEEN lo AND hi, in exact numeric arithmetic
Between(column, lo, hi) ==
  /\ lo.units < column \/ (lo.units = column /\ lo.err <= 0)
  /\ column < hi.units \/ (column = hi.units /\ hi.err >= 0)

\* Python truth value of the cuisine argument
Truthy(cuisine) == cuisine # "" /\ cuisine # None

(***************************************************************************)
(* JSON.  A scalar is [t, s, n] with t its JSON type; a document is an      *)
(* array of objects, an object a record of scalars.  json_dumps encodes the *)
(* list of dicts search_restaurants builds; json_loads decodes any          *)
(* document by the type of each scalar.                                     *)
(***************************************************************************)
JNull == [t |-> "null", s |-> "", n |-> 0]

JString(v) == [t |-> "string", s |-> v, n |-> 0]

JNumber(v) == [t |-> "number", s |-> "", n |-> v]

\* a Python str or None
EncodeText(v) == IF v = None THEN JNull ELSE JString(v)

json_dumps(lst) ==
  [i \in 1..Len(lst) |->
     [name |-> EncodeText(lst[i].name),
      distance_km |-> JNumber(lst[i].distance_km),
      type_cuisine |-> EncodeText(lst[i].type_cuisine)]]

DecodeScalar(j) ==
  CASE j.t = "null" -> None
    [] j.t = "string" -> j.s
    [] j.t = "number" -> j.n

json_loads(doc) ==
  [i \in 1..Len(doc) |-> [k \in DOMAIN doc[i] |-> DecodeScalar(doc[i][k])]]

\* the hstore value {'results_json': text}
Hstore(doc) == [has_key |-> TRUE, is_json |-> TRUE, doc |-> doc]

\* hstore values update_cache never writes: the key is missing, the text is
\* not JSON, the text is JSON of another shape ([{"foo": 1}])
HstoreNoKey == [has_key |-> FALSE, is_json |-> FALSE, doc |-> <<>>]

HstoreNotJson == [has_key |-> TRUE, is_json |-> FALSE, doc |-> <<>>]

HstoreOtherShape == Hstore(<<[foo |-> JNumber(1)]>>)

\* a decoded value is a list of {name, distance_km, type cuisine} dicts
IsResultList(lst) ==
  \A i \in 1..Len(lst) : DOMAIN lst[i] = {"name", "distance_km", "type_cuisine"}

Row(lat, lon, cuisine, hstore, ts) ==
  [latitude |-> lat, longitude |-> lon, cuisine |-> cuisine, results |-> hstore,
   created_at |-> ts]

(***************************************************************************)
(* update_cache.  fail names the statement that raises when it is executed  *)
(* ("none": every statement succeeds).  The result is the table and clock   *)
(* after the call, the count the call read, and raised: whether an          *)
(* exception leaves the function.                                           *)
(***************************************************************************)
\* pg_conn.cursor(), SELECT COUNT, DELETE, INSERT, the SELECT of check_cache
FaultPoints == {"none", "cursor", "count", "delete", "insert", "execute"}

StoreResult(tbl, clk, cnt, r) ==
  [rhistory |-> tbl, clock |-> clk, count |-> cnt, raised |-> r]

\* mutant: the table is emptied only when it holds more than CacheLimit rows
update_cache_try_late(tbl, clk, lat, lon, cuisine, results, fail) ==
  IF fail = "cursor" \/ fail = "count" THEN StoreResult(tbl, clk, -1, TRUE)
  ELSE LET count == Len(tbl)
       IN IF count > CacheLimit /\ fail = "delete" THEN StoreResult(tbl, clk, count, TRUE)
          ELSE LET kept == IF count > CacheLimit THEN <<>> ELSE tbl
                   row == Row(Round6(lat), Round6(lon),
                              IF Truthy(cuisine) THEN cuisine ELSE None,
                              Hstore(json_dumps(Take3(results))), clk + 1)
               IN IF fail = "insert" THEN StoreResult(kept, clk, count, TRUE)
                  ELSE StoreResult(Append(kept, row), clk + 1, count, FALSE)

\* the body of the try block; raised = TRUE is an exception the block raises
update_cache_try(tbl, clk, lat, lon, cuisine, results, fail) ==
  IF fail = "cursor" \/ fail = "count" THEN StoreResult(tbl, clk, -1, TRUE)
  ELSE LET count == Len(tbl)
       IN IF count >= CacheLimit /\ fail = "delete" THEN StoreResult(tbl, clk, count, TRUE)
          ELSE LET kept == IF count >= CacheLimit THEN <<>> ELSE tbl
                   results_to_store == Take3(results)
                   hstore_dict == Hstore(json_dumps(results_to_store))
                   row == Row(Round6(lat), Round6(lon),
                              IF Truthy(cuisine) THEN cuisine ELSE None,
                              hstore_dict, clk + 1)
               IN IF fail = "insert" THEN StoreResult(kept, clk, count, TRUE)
                  ELSE StoreResult(Append(kept, row), clk + 1, count, FALSE)

\* mutant: the except clause is missing, the exception leaves the function
update_cache_uncaught(tbl, clk, conn, lat, lon, cuisine, results, fail) ==
  IF conn = None THEN StoreResult(tbl, clk, -1, FALSE)
  ELSE update_cache_try(tbl, clk, lat, lon, cuisine, results, fail)

update_cache(tbl, clk, conn, lat, lon, cuisine, results, fail) ==
  IF conn = None THEN StoreResult(tbl, clk, -1, FALSE)
  ELSE [update_cache_try(tbl, clk, lat, lon, cuisine, results, fail)
          EXCEPT !.raised = FALSE]

(***************************************************************************)
(* check_cache.  The return value is [kind, value]: kind "None" for None,   *)
(* "list" for the decoded payload.                                          *)
(***************************************************************************)
ReturnNone == [kind |-> "None", value |-> <<>>]

ReturnList(v) == [kind |-> "list", value |-> v]

LookupResult(ret, r) == [ret |-> ret, raised |-> r]

\* mutant: one SELECT for both cases, "cuisine = %s" also without a filter
RowMatchesNoNull(row, lat, lon, cuisine) ==
  /\ Between(row.latitude, FloatSub(lat), FloatAdd(lat))
  /\ Between(row.longitude, FloatSub(lon), FloatAdd(lon))
  /\ row.cuisine = cuisine

\* the WHERE clause of the two SELECT statements
RowMatches(row, lat, lon, cuisine) ==
  /\ Between(row.latitude, FloatSub(lat), FloatAdd(lat))
  /\ Between(row.longitude, FloatSub(lon), FloatAdd(lon))
  /\ IF Truthy(cuisine) THEN row.cuisine = cuisine ELSE row.cuisine = None

\* ORDER BY created_at DESC LIMIT 1 over the rows with indices m
Latest(tbl, m) == { i \in m : \A j \in m : tbl[j].created_at <= tbl[i].created_at }

\* the indices of the rows fetchone may give
LatestMatching(tbl, lat, lon, cuisine) ==
  Latest(tbl, { i \in 1..Len(tbl) : RowMatches(tbl[i], lat, lon, cuisine) })

\* the body of the try block, fetchone having given row i (0: no row)
check_cache_try(tbl, i, fail) ==
  IF fail = "cursor" \/ fail = "execute" THEN LookupResult(ReturnNone, TRUE)
  ELSE IF i = 0 THEN LookupResult(ReturnNone, FALSE)
  ELSE LET hstore_data == tbl[i].results
       IN IF ~hstore_data.has_key \/ ~hstore_data.is_json
          THEN LookupResult(ReturnNone, TRUE)
          ELSE LookupResult(ReturnList(json_loads(hstore_data.doc)), FALSE)

\* mutant: the except clause is missing
check_cache_uncaught(tbl, conn, i, fail) ==
  IF conn = None THEN LookupResult(ReturnNone, FALSE)
  ELSE check_cache_try(tbl, i, fail)

check_cache(tbl, conn, i, fail) ==
  IF conn = None THEN LookupResult(ReturnNone, FALSE)
  ELSE [check_cache_try(tbl, i, fail) EXCEPT !.raised = FALSE]

\* the rows fetchone may give for a query: 0 when no row matches
Fetched(tbl, lat, lon, cuisine) ==
  LET m == LatestMatching(tbl, lat, lon, cuisine)
  IN IF m = {} THEN {0} ELSE m

(***************************************************************************)
(* State.                                                                   *)
(***************************************************************************)
VARIABLES
  mongo_connected,  \* the flag set by the ping at start-up
  stream,           \* what collection.find yields
  user_position,    \* (lat, lon) of the user
  user_cuisine,     \* the cuisine filter, "" for none
  spc,              \* position in search_restaurants: "enter", "scan", "done"
  idx,              \* documents consumed by the for loop
  scan,             \* [heap, total_count, failed]
  io_fault,         \* the cursor raised during the iteration
  sret,             \* return value (results, total_count)
  pg_conn,          \* the PostgreSQL connection, None when it failed at start-up
  pg_fault,         \* the statement PostgreSQL fails on in this run, or "none"
  rhistory,         \* the rows of the cache table, in insertion order
  clock,            \* created_at of the latest insert
  nstores,          \* update_cache calls made
  cop,              \* the cache function called last: "none", "update", "check"
  cprev,            \* the cache function called before it
  cargs,            \* arguments of the last update_cache call
  qargs,            \* arguments of the check_cache call made last, if no store followed
  count,            \* the count the last update_cache call read
  craised,          \* an exception left the last cache call
  cret,             \* return value of that check_cache call
  qpc,              \* position in the main flow: "start", "checked", "resolved",
                    \* "done", or "crashed" (an exception ended the script)
  nqueries,         \* runs of the main flow started
  live,             \* the live scan of this run: "none", "ok", "fault"
  results,          \* results of the main flow
  total_found,      \* total_found of the main flow
  cache_hit,        \* cache_hit of the main flow
  wpc,              \* concurrent update_cache calls: the position of each
                    \* ("off", "start", "counted", "flushed", "done")
  wcount            \* the count each of these calls has read, -1 before

svars == <<mongo_connected, stream, user_position, user_cuisine, spc, idx, scan,
           io_fault, sret>>

cvars == <<pg_conn, pg_fault, rhistory, clock, nstores, cop, cprev, cargs, qargs, count,
           craised, cret>>

qvars == <<qpc, nqueries, live, results, total_found, cache_hit>>

wvars == <<wpc, wcount>>

vars == <<svars, cvars, qvars, wvars>>

(***************************************************************************)
(* Inputs of the cache functions.                                           *)
(***************************************************************************)
\* most update_cache calls of a run
MaxStores == 1

\* coordinates a query is made at: the stored point, points 0.0010 and
\* 0.0011 away from it, and points with a seventh decimal
Lats == { BaseLat, BaseLat + 4, BaseLat + 10000, BaseLat + 10004, BaseLat - 10000,
          BaseLat + 11000 }

Lons == { BaseLon, BaseLon + 10000, BaseLon + 11000 }

\* coordinates results are stored for
StoreLats == { BaseLat, BaseLat + 4 }

StoreLons == { BaseLon }

\* the cuisine argument: of update_cache the filter typed in, of check_cache
\* also None
StoreCuisines == { "", "italian" }

CuisineArgs == { None, "italian", "" }

Ranked(n, d, cu) == [name |-> n, distance_km |-> d, type_cuisine |-> cu]

FourResults ==
  << Ranked("a", 1000, "italian"), Ranked(None, 1000, "Italian "),
     Ranked("c", 2000, None), Ranked("Sans nom", 3000, "thai") >>

ResultLists == { <<>>, SubSeq(FourResults, 4, 4), FourResults }

NoArgs == [lat |-> 0, lon |-> 0, cuisine |-> "", results |-> <<>>]

\* most update_cache calls in flight together
MaxWriters == 2

Writers == 1..MaxWriters

\* no concurrent update_cache calls are made
WritersIdle ==
  /\ wpc = [w \in Writers |-> "off"]
  /\ wcount = [w \in Writers |-> -1]

\* the main flow is not run
QueryIdle ==
  /\ qpc = "off"
  /\ nqueries = 0
  /\ live = "none"
  /\ results = <<>>
  /\ total_found = 0
  /\ cache_hit = FALSE

\* the cache functions have not been called
CacheIdle ==
  /\ nstores = 0
  /\ cop = "none"
  /\ cprev = "none"
  /\ cargs = NoArgs
  /\ qargs = NoArgs
  /\ count = -1
  /\ craised = FALSE
  /\ cret = ReturnNone

\* the table as earlier runs left it: n rows, created at 1..n
Filled(n, row) == [i \in 1..n |-> [row EXCEPT !.created_at = i]]

StoredRows ==
  { Row(BaseLat, BaseLon, cu, h, 1) :
      cu \in {None, "italian"},
      h \in {Hstore(json_dumps(SubSeq(FourResults, 1, 1))), HstoreNotJson} }

\* the table is empty, holds one row, or is one short of, at, or (after rows
\* inserted by runs that overlapped) one over the limit
InitTables ==
  {<<>>} \cup { <<r>> : r \in StoredRows }
    \cup { Filled(n, Row(BaseLat, BaseLon, None, Hstore(json_dumps(SubSeq(FourResults, 1, 1))), 1)) :
           n \in (CacheLimit - 1)..(CacheLimit + 1) }

(***************************************************************************)
(* The scan, one document per step.                                         *)
(***************************************************************************)
SearchInit ==
  /\ mongo_connected \in BOOLEAN
  /\ stream \in Streams
  /\ user_position \in Origins
  /\ user_cuisine \in Filters
  /\ spc = "enter"
  /\ idx = 0
  /\ scan = ScanInit
  /\ io_fault = FALSE
  /\ sret = Failure
  /\ pg_conn = None
  /\ pg_fault = "none"
  /\ rhistory = <<>>
  /\ clock = 0
  /\ CacheIdle
  /\ QueryIdle
  /\ WritersIdle

\* "if not mongo_connected: return [], 0", else collection.find
SearchEnter ==
  /\ spc = "enter"
  /\ spc' = IF mongo_connected THEN "scan" ELSE "done"
  /\ UNCHANGED <<mongo_connected, stream, user_position, user_cuisine, idx, scan,
                 io_fault, sret>>
  /\ UNCHANGED <<cvars, qvars>>
  /\ UNCHANGED wvars

ScanNext ==
  /\ spc = "scan"
  /\ idx < Len(stream)
  /\ LET st == LoopBody(scan, stream[idx + 1], user_position, user_cuisine)
     IN /\ scan' = st
        /\ idx' = idx + 1
        /\ spc' = IF st.failed THEN "done" ELSE "scan"
        /\ sret' = Failure
  /\ UNCHANGED <<mongo_connected, stream, user_position, user_cuisine, io_fault>>
  /\ UNCHANGED <<cvars, qvars>>
  /\ UNCHANGED wvars

\* the cursor raises (I/O fault): "except Exception: return [], 0"
ScanIOFault ==
  /\ spc = "scan"
  /\ idx < Len(stream)
  /\ io_fault' = TRUE
  /\ scan' = ScanFail(scan)
  /\ spc' = "done"
  /\ sret' = Failure
  /\ UNCHANGED <<mongo_connected, stream, user_position, user_cuisine, idx>>
  /\ UNCHANGED <<cvars, qvars>>
  /\ UNCHANGED wvars

\* the end of the cursor: the heap is popped into the sorted list
ScanEnd ==
  /\ spc = "scan"
  /\ idx = Len(stream)
  /\ sret' = ScanReturn(scan)
  /\ scan' = IF PopAll(scan.heap, <<>>).ok THEN scan ELSE ScanFail(scan)
  /\ spc' = "done"
  /\ UNCHANGED <<mongo_connected, stream, user_position, user_cuisine, idx, io_fault>>
  /\ UNCHANGED <<cvars, qvars>>
  /\ UNCHANGED wvars

SearchNext == SearchEnter \/ ScanNext \/ ScanIOFault \/ ScanEnd

SearchSpec == SearchInit /\ [][SearchNext]_vars

(***************************************************************************)
(* The same scan over the documents whose coordinates can be extracted (a   *)
(* document the loop skips plays no part in a comparison of two orders).    *)
(***************************************************************************)
Extractable == { c \in Candidates : ~ExtractRaises(c) }

PermInit == SearchInit /\ \A i \in 1..Len(stream) : stream[i] \in Extractable

PermSpec == PermInit /\ [][SearchNext]_vars

(***************************************************************************)
(* The cache functions called one after the other, on any table.            *)
(***************************************************************************)
SearchIdle ==
  /\ mongo_connected = TRUE
  /\ stream = <<>>
  /\ user_position = <<BaseLat, BaseLon>>
  /\ user_cuisine = ""
  /\ spc = "enter"
  /\ idx = 0
  /\ scan = ScanInit
  /\ io_fault = FALSE
  /\ sret = Failure

CacheInit ==
  /\ SearchIdle
  /\ pg_conn \in {"connection", None}
  /\ pg_fault \in FaultPoints
  /\ pg_conn = None => pg_fault = "none"
  /\ rhistory \in InitTables
  /\ clock = Len(rhistory)
  /\ CacheIdle
  /\ QueryIdle
  /\ WritersIdle

UpdateCache ==
  /\ nstores < MaxStores
  /\ \E lat \in StoreLats, lon \in StoreLons, cuisine \in StoreCuisines,
        res \in ResultLists :
       LET r == update_cache(rhistory, clock, pg_conn, lat, lon, cuisine, res, pg_fault)
       IN /\ rhistory' = r.rhistory
          /\ clock' = r.clock
          /\ count' = r.count
          /\ craised' = r.raised
          /\ cargs' = [lat |-> lat, lon |-> lon, cuisine |-> cuisine,
                       results |-> res]
  /\ nstores' = nstores + 1
  /\ cop' = "update"
  /\ cprev' = cop
  /\ qargs' = NoArgs
  /\ cret' = ReturnNone
  /\ UNCHANGED <<pg_conn, pg_fault>>
  /\ UNCHANGED <<svars, qvars>>
  /\ UNCHANGED wvars

\* a lookup reads the table and leaves it as it is: one lookup is made after
\* each store (or at the start), not several in a row
CheckCache ==
  /\ cop # "check"
  /\ \E lat \in Lats, lon \in Lons, cuisine \in CuisineArgs :
       \E i \in Fetched(rhistory, lat, lon, cuisine) :
         LET r == check_cache(rhistory, pg_conn, i, pg_fault)
         IN /\ cret' = r.ret
            /\ craised' = r.raised
            /\ qargs' = [lat |-> lat, lon |-> lon, cuisine |-> cuisine,
                         results |-> <<>>]
  /\ cop' = "check"
  /\ cprev' = cop
  /\ UNCHANGED <<pg_conn, pg_fault, rhistory, clock, nstores, cargs, count>>
  /\ UNCHANGED <<svars, qvars>>
  /\ UNCHANGED wvars

CacheNext == UpdateCache \/ CheckCache

CacheSpec == CacheInit /\ [][CacheNext]_vars

(***************************************************************************)
(* The main flow (sections F and G of the script), run after run on the     *)
(* same table and collection.                                               *)
(***************************************************************************)
\* most runs of the main flow
MaxQueries == 2

\* str.lower(), tabulated on the cuisines of the model
Lower(s) ==
  CASE s = "Italian " -> "italian "
    [] OTHER -> s

\* validate_and_get_cuisine: "" or a typed (stripped, lower-case) cuisine that
\* is among the lower-cased distinct cuisines of the collection
CuisineInputs(connected, s) ==
  {""} \cup IF connected
            THEN { f \in Filters :
                     \E i \in 1..Len(s) :
                       CuisineOf(s[i]) # None /\ Lower(CuisineOf(s[i])) = f }
            ELSE {}

QueryLats == { BaseLat, BaseLat + 4, BaseLat + 10000 }

QueryLons == { BaseLon }

\* the collection: empty, four documents of which the nearest comes last,
\* and two documents whose heap tuples cannot be compared
Collections ==
  { <<>>,
    << Resto(At(2000), "c", "italian"), Resto(At(1000), "a", "italian"),
       Resto(At(-1000), "b", "Italian "), Resto(At(500), Absent, "thai") >>,
    << Resto(At(1000), "a", "italian"), Resto(At(1000), "a", None) >> }

QueryRows ==
  { Row(BaseLat, BaseLon, cu, h, 1) :
      cu \in {None, "italian"},
      h \in {Hstore(json_dumps(SubSeq(FourResults, 1, 1))), HstoreNoKey, HstoreNotJson,
             HstoreOtherShape} }

QueryTables ==
  {<<>>} \cup { <<r>> : r \in QueryRows }
    \cup { Filled(CacheLimit, Row(BaseLat + 11000, BaseLon, None,
                                  Hstore(json_dumps(SubSeq(FourResults, 1, 1))), 1)) }

\* "if cached_results:" on the return value of check_cache
TruthyReturn(ret) == ret.kind = "list" /\ ret.value # <<>>

\* results.sort(key=lambda resto: resto['distance_km']), a stable sort
RECURSIVE InsertByDistance(_, _)
InsertByDistance(sorted, r) ==
  IF sorted = <<>> THEN <<r>>
  ELSE IF r.distance_km < Head(sorted).distance_km THEN <<r>> \o sorted
  ELSE <<Head(sorted)>> \o InsertByDistance(Tail(sorted), r)

RECURSIVE SortByDistance(_)
SortByDistance(lst) ==
  IF lst = <<>> THEN <<>>
  ELSE InsertByDistance(SortByDistance(SubSeq(lst, 1, Len(lst) - 1)), lst[Len(lst)])

Outcome(res, total, hit) == [results |-> res, total_found |-> total, cache_hit |-> hit]

\* mutant: the document store is tested before the cache is looked at
ResolveMongoFirst(cached_results, connected, scanned) ==
  IF ~connected THEN Outcome(<<>>, 0, FALSE)
  ELSE IF TruthyReturn(cached_results)
  THEN Outcome(cached_results.value, Len(cached_results.value), TRUE)
  ELSE Outcome(scanned.results, scanned.total_count, FALSE)

\* the if/else after check_cache; scanned is what search_restaurants returns
Resolve(cached_results, connected, scanned) ==
  IF TruthyReturn(cached_results)
  THEN Outcome(cached_results.value, Len(cached_results.value), TRUE)
  ELSE IF ~connected THEN Outcome(<<>>, 0, FALSE)
  ELSE Outcome(scanned.results, scanned.total_count, FALSE)

\* the display loop reads r['distance_km'] and r['name'] of the first three:
\* a KeyError when one of them lacks a key
DisplayRaises(res) ==
  \E i \in 1..Len(Take3(res)) : ~({"distance_km", "name"} \subseteq DOMAIN res[i])

QueryInputs ==
  /\ user_position \in QueryLats \X QueryLons
  /\ user_cuisine \in CuisineInputs(mongo_connected, stream)

QueryInit ==
  /\ mongo_connected \in BOOLEAN
  /\ stream \in Collections
  /\ QueryInputs
  /\ spc = "enter"
  /\ idx = 0
  /\ scan = ScanInit
  /\ io_fault = FALSE
  /\ sret = Failure
  /\ pg_conn \in {"connection", None}
  /\ pg_fault \in FaultPoints
  /\ pg_conn = None => pg_fault = "none"
  /\ rhistory \in QueryTables
  /\ clock = Len(rhistory)
  /\ CacheIdle
  /\ qpc = "start"
  /\ nqueries = 1
  /\ live = "none"
  /\ results = <<>>
  /\ total_found = 0
  /\ cache_hit = FALSE
  /\ WritersIdle

\* cached_results = check_cache(user_lat, user_lon, user_cuisine)
QueryCheck ==
  /\ qpc = "start"
  /\ \E i \in Fetched(rhistory, user_position[1], user_position[2], user_cuisine) :
       LET r == check_cache(rhistory, pg_conn, i, pg_fault)
       IN /\ cret' = r.ret
          /\ craised' = r.raised
          /\ qpc' = IF r.raised THEN "crashed" ELSE "checked"
  /\ qargs' = [lat |-> user_position[1], lon |-> user_position[2],
               cuisine |-> user_cuisine, results |-> <<>>]
  /\ cop' = "check"
  /\ cprev' = cop
  /\ UNCHANGED <<pg_conn, pg_fault, rhistory, clock, nstores, cargs, count>>
  /\ UNCHANGED <<svars, nqueries, live, results, total_found, cache_hit>>
  /\ UNCHANGED wvars

\* a cache hit, or the document store is down: no scan is made
QueryNoScan ==
  /\ qpc = "checked"
  /\ TruthyReturn(cret) \/ ~mongo_connected
  /\ LET o == Resolve(cret, mongo_connected, Failure)
     IN /\ results' = o.results
        /\ total_found' = o.total_found
        /\ cache_hit' = o.cache_hit
  /\ qpc' = "resolved"
  /\ UNCHANGED <<svars, cvars, nqueries, live>>
  /\ UNCHANGED wvars

\* results, total_found = search_restaurants(user_position, user_cuisine)
QueryScan ==
  /\ qpc = "checked"
  /\ ~TruthyReturn(cret) /\ mongo_connected
  /\ \E fault \in BOOLEAN :
       LET scanned == IF fault THEN Failure
                      ELSE search_restaurants(user_position, user_cuisine, stream, TRUE)
           o == Resolve(cret, mongo_connected, scanned)
       IN /\ results' = o.results
          /\ total_found' = o.total_found
          /\ cache_hit' = o.cache_hit
          /\ live' = IF fault THEN "fault" ELSE "ok"
  /\ qpc' = "resolved"
  /\ UNCHANGED <<svars, cvars, nqueries>>
  /\ UNCHANGED wvars

\* the display of the results and the update of the cache
QueryFinish ==
  /\ qpc = "resolved"
  /\ IF results # <<>> /\ DisplayRaises(results)
     THEN /\ qpc' = "crashed"
          /\ UNCHANGED <<cvars, results>>
     ELSE IF results # <<>> /\ ~cache_hit
     THEN LET sorted == SortByDistance(results)
              r == update_cache(rhistory, clock, pg_conn, user_position[1],
                                user_position[2], user_cuisine, sorted, pg_fault)
          IN /\ results' = sorted
             /\ rhistory' = r.rhistory
             /\ clock' = r.clock
             /\ count' = r.count
             /\ craised' = r.raised
             /\ cargs' = [lat |-> user_position[1], lon |-> user_position[2],
                          cuisine |-> user_cuisine, results |-> sorted]
             /\ nstores' = nstores + 1
             /\ cop' = "update"
             /\ cprev' = cop
             /\ qpc' = IF r.raised THEN "crashed" ELSE "done"
             /\ UNCHANGED <<pg_conn, pg_fault, qargs, cret>>
     ELSE /\ qpc' = "done"
          /\ UNCHANGED <<cvars, results>>
  /\ UNCHANGED <<svars, nqueries, live, total_found, cache_hit>>
  /\ UNCHANGED wvars

\* the script is run again
QueryAgain ==
  /\ qpc \in {"done", "crashed"}
  /\ nqueries < MaxQueries
  /\ nqueries' = nqueries + 1
  /\ user_position' \in QueryLats \X QueryLons
  /\ user_cuisine' \in CuisineInputs(mongo_connected, stream)
  /\ qpc' = "start"
  /\ live' = "none"
  /\ results' = <<>>
  /\ total_found' = 0
  /\ cache_hit' = FALSE
  /\ UNCHANGED <<mongo_connected, stream, spc, idx, scan, io_fault, sret>>
  /\ UNCHANGED cvars
  /\ UNCHANGED wvars

QueryNext == QueryCheck \/ QueryNoScan \/ QueryScan \/ QueryFinish \/ QueryAgain

QuerySpec == QueryInit /\ [][QueryNext]_vars

(***************************************************************************)
(* A series of runs of the main flow that starts on an empty table, takes   *)
(* coordinates of at most six decimals and meets no failure of MongoDB or   *)
(* PostgreSQL.                                                              *)
(***************************************************************************)
\* the coordinates carry at most six decimals
SixDecimals(pos) == Round6(pos[1]) = pos[1] /\ Round6(pos[2]) = pos[2]

SeriesInit ==
  /\ QueryInit
  /\ mongo_connected
  /\ pg_conn # None /\ pg_fault = "none"
  /\ rhistory = <<>>
  /\ SixDecimals(user_position)

\* the live scan, the cursor not failing
SeriesScan == QueryScan /\ live' = "ok"

SeriesAgain == QueryAgain /\ SixDecimals(user_position')

SeriesNext == QueryCheck \/ QueryNoScan \/ SeriesScan \/ QueryFinish \/ SeriesAgain

SeriesSpec == SeriesInit /\ [][SeriesNext]_vars

(***************************************************************************)
(* update_cache called by several runs of the script at the same time, each *)
(* on its own connection.  With autocommit every statement is a transaction *)
(* of its own: SELECT COUNT, DELETE and INSERT of one call interleave    *)
(* with the statements of the others.  No statement fails.                  *)
(***************************************************************************)
\* the sizes of the table the calls start on
ConcSizes == {0, CacheLimit - 2, CacheLimit - 1, CacheLimit}

ConcInit ==
  /\ mongo_connected = TRUE
  /\ stream = <<>>
  /\ user_position = <<BaseLat, BaseLon>>
  /\ user_cuisine = ""
  /\ spc = "enter"
  /\ idx = 0
  /\ scan = ScanInit
  /\ io_fault = FALSE
  /\ sret = Failure
  /\ pg_conn = "connection"
  /\ pg_fault = "none"
  /\ \E n \in ConcSizes :
       rhistory = Filled(n, Row(BaseLat + 11000, BaseLon, None,
                                Hstore(json_dumps(SubSeq(FourResults, 1, 1))), 1))
  /\ clock = Len(rhistory)
  /\ CacheIdle
  /\ QueryIdle
  /\ wpc = [w \in Writers |-> "start"]
  /\ wcount = [w \in Writers |-> -1]

\* pg_cursor.execute("SELECT COUNT FROM rhistory"); count = fetchone()[0]
WriterCount(w) ==
  /\ wpc[w] = "start"
  /\ wcount' = [wcount EXCEPT ![w] = Len(rhistory)]
  /\ wpc' = [wpc EXCEPT ![w] = "counted"]
  /\ UNCHANGED <<svars, cvars, qvars>>

\* if count >= 20: pg_cursor.execute("DELETE FROM rhistory")
WriterFlush(w) ==
  /\ wpc[w] = "counted"
  /\ wcount[w] >= CacheLimit
  /\ rhistory' = <<>>
  /\ wpc' = [wpc EXCEPT ![w] = "flushed"]
  /\ UNCHANGED <<pg_conn, pg_fault, clock, nstores, cop, cprev, cargs, qargs, count,
                 craised, cret>>
  /\ UNCHANGED <<svars, qvars, wcount>>

\* pg_cursor.execute(insert_query, ...), after the DELETE or without it
WriterInsert(w) ==
  /\ wpc[w] = "flushed" \/ (wpc[w] = "counted" /\ wcount[w] < CacheLimit)
  /\ \E lat \in StoreLats, lon \in StoreLons, cuisine \in StoreCuisines :
       rhistory' = Append(rhistory,
                          Row(Round6(lat), Round6(lon),
                              IF Truthy(cuisine) THEN cuisine ELSE None,
                              Hstore(json_dumps(Take3(FourResults))), clock + 1))
  /\ clock' = clock + 1
  /\ wpc' = [wpc EXCEPT ![w] = "done"]
  /\ UNCHANGED <<pg_conn, pg_fault, nstores, cop, cprev, cargs, qargs, count, craised, cret>>
  /\ UNCHANGED <<svars, qvars, wcount>>

ConcNext == \E w \in Writers : WriterCount(w) \/ WriterFlush(w) \/ WriterInsert(w)

ConcSpec == ConcInit /\ [][ConcNext]_vars

(***************************************************************************)
(* Reference notions the claims about the scan are stated with.             *)
(***************************************************************************)
\* a candidate with usable coordinates that passes the cuisine filter
Matches(resto, f) == resto.coord.kind = "ok" /\ condition(resto, f)

MatchingOf(s, f) == SelectSeq(s, LAMBDA r : Matches(r, f))

DistanceOf(pos, resto) == geodesic(pos, <<resto.coord.lat, resto.coord.lon>>)

RECURSIVE InsertSorted(_, _)
InsertSorted(sorted, d) ==
  IF sorted = <<>> THEN <<d>>
  ELSE IF d < Head(sorted) THEN <<d>> \o sorted
  ELSE <<Head(sorted)>> \o InsertSorted(Tail(sorted), d)

RECURSIVE SortAll(_)
SortAll(ds) == IF ds = <<>> THEN <<>> ELSE InsertSorted(SortAll(Tail(ds)), Head(ds))

\* "collect all matching candidates, sort by distance ascending"
SortedDistances(pos, f, s) ==
  LET m == MatchingOf(s, f)
  IN SortAll([i \in 1..Len(m) |-> DistanceOf(pos, m[i])])

DistancesOf(res) == [i \in 1..Len(res) |-> res[i].distance_km]

NamesOf(res) == { res[i].name : i \in 1..Len(res) }

\* the orders of n candidates, tabulated once
OrdersTable == [n \in 0..MaxLen |-> { p \in [1..n -> 1..n] : Injective(p) }]

Orders(n) == OrdersTable[n]

Permuted(s, p) == [i \in 1..Len(s) |-> s[p[i]]]

\* the scan of s raises inside the try block (and so returns ([], 0))
ScanRaises(pos, f, s) ==
  LET st == ScanFrom(ScanInit, s, 1, pos, f)
  IN st.failed \/ ~PopAll(st.heap, <<>>).ok

\* the call returned from a scan that ran to the end of the cursor
Completed == spc = "done" /\ mongo_connected /\ ~io_fault

\* C1: search_restaurants returns min(3, total_count) results: never more
\* than 3, and fewer than 3 only when the returned match count is below 3.
C1_ResultCount ==
  spc = "done" => Len(sret.results) = Min(3, sret.total_count)

C1_Witness ==
  /\ spc = "done"
  /\ sret.total_count = 4
  /\ Len(sret.results) = 3

\* C2: on a stream scanned without failure the returned distances are the
\* first min(3, n) distances of the matching candidates sorted ascending.
C2_NearestSorted ==
  Completed /\ ~scan.failed
    => DistancesOf(sret.results) = Take3(SortedDistances(user_position, user_cuisine, stream))

\* four matches, the last of the stream the nearest: it evicted a held one
C2_Witness ==
  /\ Completed /\ ~scan.failed
  /\ sret.total_count = 4
  /\ Matches(stream[Len(stream)], user_cuisine)
  /\ DistanceOf(user_position, stream[Len(stream)]) = sret.results[1].distance_km
  /\ sret.results[1].distance_km < sret.results[2].distance_km

\* C3: the returned match count is the number of candidates with usable
\* coordinates that pass the cuisine filter, and is at least the number of
\* returned results.
C3_ExactCount ==
  Completed
    => /\ sret.total_count = Len(MatchingOf(stream, user_cuisine))
       /\ sret.total_count >= Len(sret.results)

\* C4 as claimed: every order of the same candidates yields the same set of
\* top-3 names, ties included (stated on the scans that complete without
\* raising, where an abort cannot be what makes the sets differ).
C4_PermutationInvariant ==
  Completed /\ ~scan.failed
    => \A p \in Orders(Len(stream)) :
         ~ScanRaises(user_position, user_cuisine, Permuted(stream, p))
           => NamesOf(search_restaurants(user_position, user_cuisine,
                                         Permuted(stream, p), TRUE).results)
              = NamesOf(sret.results)

DistinctDistances(pos, f, s) ==
  LET m == MatchingOf(s, f)
  IN \A i, j \in 1..Len(m) : DistanceOf(pos, m[i]) = DistanceOf(pos, m[j]) => i = j

\* C4 amended: when no two matching candidates lie at the same distance,
\* every order of the same candidates yields the same set of top-3 names.
C4_PermutationInvariantNoTies ==
  Completed /\ DistinctDistances(user_position, user_cuisine, stream)
    => \A p \in Orders(Len(stream)) :
         NamesOf(search_restaurants(user_position, user_cuisine,
                                    Permuted(stream, p), TRUE).results)
         = NamesOf(sret.results)

\* four matches at four different distances, the farthest seen first
C4_Witness ==
  /\ Completed /\ DistinctDistances(user_position, user_cuisine, stream)
  /\ sret.total_count = 4
  /\ Len(sret.results) = 3
  /\ \A i \in 1..3 : sret.results[i].distance_km < DistanceOf(user_position, stream[1])

(***************************************************************************)
(* Reference notions the claims about the cache are stated with.            *)
(***************************************************************************)
\* PostgreSQL is reachable and executes every statement
CacheWorks == pg_conn # None /\ pg_fault = "none"

\* the same cuisine filter, "no filter" being "" or None
SameFilter(a, b) == IF Truthy(a) THEN a = b ELSE ~Truthy(b)

\* the coordinates differ by at most d on each axis
Within(a, b, d) == Abs(a.lat - b.lat) <= d /\ Abs(a.lon - b.lon) <= d

\* the offset 0.0011 just beyond the tolerance
Beyond == Tolerance + Tolerance \div 10

\* an update_cache call on a table of n rows raises inside its try block
UpdateFails(n) ==
  \/ pg_fault \in {"cursor", "count", "insert"}
  \/ pg_fault = "delete" /\ n >= CacheLimit

\* a check_cache call raises inside its try block before it fetches a row
LookupFails == pg_fault \in {"cursor", "execute"}

\* C5: a store that does not fail, followed by a lookup at coordinates within
\* the tolerance on both axes and with the same filter, returns the first
\* three stored results unchanged, whatever the table held before and however
\* many decimals the stored coordinate carries.
C5_RoundTrip ==
  ( /\ cop = "check" /\ cprev = "update"
    /\ CacheWorks
    /\ Within(qargs, cargs, Tolerance)
    /\ SameFilter(qargs.cuisine, cargs.cuisine) )
  => cret = ReturnList(Take3(cargs.results))

\* the table holds one well-formed row that the lookup's filter selects
SingleEntry ==
  /\ cop = "check"
  /\ CacheWorks
  /\ Len(rhistory) = 1
  /\ rhistory[1].results.has_key /\ rhistory[1].results.is_json
  /\ IF Truthy(qargs.cuisine) THEN rhistory[1].cuisine = qargs.cuisine
     ELSE rhistory[1].cuisine = None

\* C6: a lookup whose coordinate differs from the stored one by exactly
\* 0.0010 on one axis, the other axis within the tolerance, is a hit; a
\* difference of 0.0011 on either axis is a miss.
C6_Boundary ==
  SingleEntry =>
    LET dlat == Abs(qargs.lat - rhistory[1].latitude)
        dlon == Abs(qargs.lon - rhistory[1].longitude)
        hit == cret = ReturnList(json_loads(rhistory[1].results.doc))
    IN /\ (dlat = Tolerance /\ dlon <= Tolerance) => hit
       /\ (dlon = Tolerance /\ dlat <= Tolerance) => hit
       /\ (dlat = Beyond \/ dlon = Beyond) => cret = ReturnNone

\* the second half of C6 alone: a difference of 0.0011 on either axis misses
C6_BeyondMisses ==
  SingleEntry =>
    ( ( \/ Abs(qargs.lat - rhistory[1].latitude) = Beyond
        \/ Abs(qargs.lon - rhistory[1].longitude) = Beyond )
      => cret = ReturnNone )

\* C7: an update_cache call that does not fail, made when the table holds n
\* rows, leaves n + 1 rows if n < 20 and exactly 1 row (the new one) if
\* n >= 20; the count never exceeds 20 after such a call.
C7_Eviction ==
  [][ ( /\ cop' = "update"
        /\ pg_conn # None
        /\ ~UpdateFails(Len(rhistory)) )
      => /\ Len(rhistory') = IF Len(rhistory) < CacheLimit THEN Len(rhistory) + 1 ELSE 1
         /\ rhistory'[Len(rhistory')].created_at = clock'
         /\ Len(rhistory) < CacheLimit => SubSeq(rhistory', 1, Len(rhistory)) = rhistory
         /\ Len(rhistory') <= CacheLimit ]_vars

\* a store found the table full (or over-full) and left only its own row
C7_Witness ==
  /\ cop = "update"
  /\ pg_conn # None /\ pg_fault = "none"
  /\ count >= CacheLimit
  /\ Len(rhistory) = 1
  /\ rhistory[1].created_at = clock

(***************************************************************************)
(* Claims about the main flow.                                              *)
(***************************************************************************)
\* the main flow has called check_cache in this run
LookedUp == qpc \in {"checked", "resolved", "done", "crashed"}

\* C8: no failure of a cache operation reaches the caller: update_cache
\* returns normally when it fails, check_cache returns "no cached result"
\* when it fails, and the main flow goes on as with an empty cache (a live
\* scan, no crash).
C8_NoPropagation ==
  /\ ~craised
  /\ (LookedUp /\ (pg_conn = None \/ LookupFails))
       => /\ cret = ReturnNone
          /\ qpc # "crashed"
          /\ ~cache_hit
          /\ qpc \in {"resolved", "done"} =>
               /\ mongo_connected => live # "none"
               /\ live = "ok" =>
                    total_found =
                      search_restaurants(user_position, user_cuisine, stream, TRUE).total_count
  /\ (qpc = "crashed") => TruthyReturn(cret)

\* a run in which both the lookup and the store failed ends with live results
C8_Witness ==
  /\ qpc = "done"
  /\ pg_fault = "cursor"
  /\ rhistory # <<>>
  /\ cop = "update" /\ count = -1
  /\ results # <<>>
  /\ ~cache_hit

\* the payload of a row does not decode to a list of result dicts
Corrupt(h) == ~h.has_key \/ ~h.is_json \/ ~IsResultList(json_loads(h.doc))

\* the lookup of this run fetches a row, and every row it may fetch is corrupt
FetchesCorrupt ==
  /\ qpc \in {"checked", "resolved", "crashed"}
  /\ pg_conn # None /\ ~LookupFails
  /\ LET m == LatestMatching(rhistory, user_position[1], user_position[2], user_cuisine)
     IN m # {} /\ \A i \in m : Corrupt(rhistory[i].results)

\* C9: when the most recent matching row holds a payload that cannot be
\* decoded, the lookup is a miss and the query goes to the live scan: it
\* does not crash and the payload is not returned as results.
C9_CorruptDegrades ==
  FetchesCorrupt => (cret = ReturnNone /\ qpc # "crashed" /\ ~cache_hit)

\* the part of C9 the code keeps: a payload without the key, or that is not
\* JSON, is a miss
C9_UndecodableMisses ==
  ( /\ qpc \in {"checked", "resolved", "crashed"}
    /\ pg_conn # None /\ ~LookupFails
    /\ LET m == LatestMatching(rhistory, user_position[1], user_position[2], user_cuisine)
       IN m # {} /\ \A i \in m : ~rhistory[i].results.has_key \/ ~rhistory[i].results.is_json )
  => (cret = ReturnNone /\ qpc # "crashed" /\ ~cache_hit)

\* C10: whenever the document store is unreachable the query returns empty
\* results and matchCount 0, for every state of the cache.
C10_MongoDownEmpty ==
  (qpc = "done" /\ ~mongo_connected) => (results = <<>> /\ total_found = 0)

\* C10 as the code has it: with the document store unreachable, a query whose
\* lookup gives no non-empty cached result returns empty results and
\* matchCount 0; a query that completes on a cache hit returns the cached
\* results and their number.
C10_MongoDownMissEmpty ==
  (qpc = "done" /\ ~mongo_connected) =>
    IF TruthyReturn(cret)
    THEN results = cret.value /\ total_found = Len(cret.value) /\ cache_hit
    ELSE results = <<>> /\ total_found = 0 /\ ~cache_hit

\* the store is down, the table holds a row for another filter: nothing is returned
C10_Witness ==
  /\ qpc = "done"
  /\ ~mongo_connected
  /\ CacheWorks
  /\ Len(rhistory) = 1 /\ rhistory[1].cuisine = "italian"
  /\ cret = ReturnNone
  /\ results = <<>> /\ total_found = 0

(***************************************************************************)
(* Claims about failures of the scan and about the write-back.              *)
(***************************************************************************)
\* what a scan that succeeds and matches no candidate returns
ZeroMatch == search_restaurants(user_position, user_cuisine, <<>>, TRUE)

\* C11: a scan that fails on the document store (unreachable, or an I/O
\* fault during the iteration) never returns the value a successful scan
\* that matched no candidate returns.
C11_FailureDistinct ==
  (spc = "done" /\ (~mongo_connected \/ io_fault)) => sret # ZeroMatch

\* the row update_cache writes for this run's query and results
WrittenBack ==
  /\ cop = "update"
  /\ rhistory # <<>>
  /\ rhistory[Len(rhistory)] =
       Row(Round6(user_position[1]), Round6(user_position[2]),
           IF Truthy(user_cuisine) THEN user_cuisine ELSE None,
           Hstore(json_dumps(Take3(results))), clock)

\* this run's lookup directly follows the store of a run with the same query
RepeatsStored ==
  /\ cop = "check" /\ cprev = "update"
  /\ qargs.lat = cargs.lat /\ qargs.lon = cargs.lon /\ qargs.cuisine = cargs.cuisine

\* C12: every run that misses the cache and completes a live scan writes the
\* scan's output back as a new entry for its coordinate and cuisine, whatever
\* the output, a scan that matched no candidate included.
C12_WriteBack ==
  ( /\ qpc = "done" /\ ~cache_hit /\ live = "ok"
    /\ ~ScanRaises(user_position, user_cuisine, stream)
    /\ CacheWorks )
  => WrittenBack

\* C12 as the code has it: a run that misses the cache and ends a live scan
\* with at least one result writes the results back as a new entry for its
\* coordinate and cuisine, and with a working cache store the same query run
\* again at once is served these results from the cache.
C12_WriteBackNonEmpty ==
  /\ (qpc = "done" /\ ~cache_hit /\ results # <<>> /\ CacheWorks) => WrittenBack
  /\ (qpc \in {"checked", "resolved"} /\ RepeatsStored /\ CacheWorks)
       => /\ cret = ReturnList(Take3(cargs.results))
          /\ qpc = "resolved" => (cache_hit /\ results = Take3(cargs.results))

\* the second run of a query is served what the first run stored
C12_Witness ==
  /\ qpc = "resolved"
  /\ nqueries = 2
  /\ RepeatsStored /\ CacheWorks
  /\ cache_hit
  /\ Len(results) = 3
  /\ results = Take3(cargs.results)

(***************************************************************************)
(* Claims about malformed records, ties and uncomparable tuples.            *)
(***************************************************************************)
\* the stream without the candidates whose coordinate is absent or malformed
Usable(s) == SelectSeq(s, LAMBDA r : r.coord.kind = "ok")

\* C13: a candidate whose coordinate is absent or malformed is skipped: the
\* results and the count of a scan that reaches the end of the cursor are
\* those of the stream with these candidates removed.
C13_MalformedSkipped ==
  Completed => sret = search_restaurants(user_position, user_cuisine, Usable(stream), TRUE)

\* the part of C13 the code keeps: a candidate without a coordinate field, or
\* with fewer than two components, is skipped
C13_MissingSkipped ==
  (Completed /\ \A i \in 1..Len(stream) : stream[i].coord.kind # "nonnum")
    => sret = search_restaurants(user_position, user_cuisine, Usable(stream), TRUE)

\* the result dict of a candidate
RankedOf(pos, resto) ==
  [name |-> NameOf(resto), distance_km |-> DistanceOf(pos, resto),
   type_cuisine |-> CuisineOf(resto)]

\* the matching candidates in a stable sort by distance
StableRanking(pos, f, s) ==
  LET m == MatchingOf(s, f)
  IN SortByDistance([i \in 1..Len(m) |-> RankedOf(pos, m[i])])

\* C14: the results are the first three of a stable sort of the matching
\* candidates by distance (first seen wins among equal distances).
C14_FirstSeenWins ==
  (Completed /\ ~scan.failed)
    => sret.results = Take3(StableRanking(user_position, user_cuisine, stream))

\* the part of C14 the code keeps: the distances, and the results when no two
\* matching candidates are at the same distance
C14_StableWithoutTies ==
  (Completed /\ ~scan.failed /\ DistinctDistances(user_position, user_cuisine, stream))
    => sret.results = Take3(StableRanking(user_position, user_cuisine, stream))

\* C17: a scan over candidates that all have usable coordinates, whose
\* iteration does not fail, returns min(3, matchCount) results and the exact
\* match count, whatever the names and cuisines are.
C17_NoAbortOnTies ==
  (Completed /\ Usable(stream) = stream)
    => /\ sret.total_count = Len(MatchingOf(stream, user_cuisine))
       /\ Len(sret.results) = Min(3, Len(MatchingOf(stream, user_cuisine)))

(***************************************************************************)
(* Claims about the entries a series of queries leaves in the table.        *)
(***************************************************************************)
\* rows i and j carry the same cuisine and lie within d of each other
NearDuplicates(i, j, d) ==
  /\ rhistory[i].cuisine = rhistory[j].cuisine
  /\ Abs(rhistory[i].latitude - rhistory[j].latitude) <= d
  /\ Abs(rhistory[i].longitude - rhistory[j].longitude) <= d

\* C16: in a series of queries from an empty table, with coordinates of at
\* most six decimals and no failure, no two entries of the table have the
\* same cuisine and coordinates within 0.001 of each other on both axes.
C16_NoNearDuplicates ==
  \A i, j \in 1..Len(rhistory) : i < j => ~NearDuplicates(i, j, Tolerance)

\* the part of C16 the code keeps: no two entries have the same cuisine and
\* the same coordinates
C16_NoSameSignature ==
  \A i, j \in 1..Len(rhistory) : i < j => ~NearDuplicates(i, j, 0)

(***************************************************************************)
(* Claims about concurrent stores.                                          *)
(***************************************************************************)
\* no update_cache call is in flight
NoneInFlight == \A w \in Writers : wpc[w] \in {"start", "done"}

\* C15: with update_cache calls running concurrently, each statement atomic
\* and committed on its own, the table never holds more than 20 entries once
\* every call in flight has finished.
C15_ConcurrentBound ==
  NoneInFlight => Len(rhistory) <= CacheLimit

\* what the concurrent calls do keep: n calls never leave more than 20 + n
\* entries minus one
C15_BoundPlusWriters ==
  Len(rhistory) <= CacheLimit + MaxWriters - 1

====
